---- MODULE Spec2Model ----
(***************************************************************************)
(* A model of taxi's timesheet core: the line parser (parser.py) and the   *)
(* synchronized EntriesCollection / EntriesList / TimesheetEntry           *)
(* (entry.py).                                                             *)
(*                                                                         *)
(* A text is the list of its lines (what text.splitlines() yields); a line *)
(* of text is a sequence of one-character strings.  Python's None is       *)
(* NoText where a text is expected, NoTime where a time of day is expected *)
(* and NoLine where a bound line is expected.                              *)
(***************************************************************************)
EXTENDS Integers, Sequences, FiniteSets, TLC

VARIABLES
    pc,           \* where the constructor / session stands
    text,         \* the lines handed to EntriesCollection(entries)
    lines,        \* EntriesCollection.lines: the Document
    coll,         \* the defaultdict: date -> EntriesList (a sequence of entries)
    synchronized, \* EntriesCollection.synchronized
    bottom,       \* EntriesCollection.add_date_to_bottom
    nextId,       \* identity of the next EntryLine object created
    error,        \* the exception the last operation raised, or "none"
    last          \* the last operation that ran and its arguments

vars == <<pc, text, lines, coll, synchronized, bottom, nextId, error, last>>

(***************************************************************************)
(* Bounds of the model.                                                    *)
(***************************************************************************)
\* lines of a text handed to the constructor, when only the constructor runs
MaxTextLines == 3
\* lines of the text a session starts from
MaxSessionLines == 3
\* entries a session creates and appends
MaxNewEntries == 1
\* lines of the Document beyond which a session adds no more
MaxDocLines == 5

(***************************************************************************)
(* Characters and strings.                                                 *)
(***************************************************************************)
\* F of the value of v, v being evaluated once, whatever use F makes of it
With(v, F(_)) == CHOOSE r \in {F(y) : y \in {v}} : TRUE

NoText == <<"None">>

NoTime == [none |-> TRUE]

NoLine == 0

Digits == {"0", "1", "2", "3", "4", "5", "6", "7", "8", "9"}

Whitespace == {" ", "\t"}

DigitVal(c) ==
    CASE c = "0" -> 0 [] c = "1" -> 1 [] c = "2" -> 2 [] c = "3" -> 3
      [] c = "4" -> 4 [] c = "5" -> 5 [] c = "6" -> 6 [] c = "7" -> 7
      [] c = "8" -> 8 [] c = "9" -> 9

DigitChar(n) ==
    CASE n = 0 -> "0" [] n = 1 -> "1" [] n = 2 -> "2" [] n = 3 -> "3"
      [] n = 4 -> "4" [] n = 5 -> "5" [] n = 6 -> "6" [] n = 7 -> "7"
      [] n = 8 -> "8" [] n = 9 -> "9"

RECURSIVE IntUpTo(_, _)
\* int(s[:n]) of a digit string
IntUpTo(s, n) ==
    IF n = 0 THEN 0 ELSE 10 * IntUpTo(s, n - 1) + DigitVal(s[n])

\* int(s) of a non-empty digit string
IntOf(s) == IntUpTo(s, Len(s))

RECURSIVE IntText(_)
\* the decimal digits of n >= 0
IntText(n) ==
    IF n < 10 THEN <<DigitChar(n)>>
    ELSE IntText(n \div 10) \o <<DigitChar(n % 10)>>

\* "%02d" % n
TwoDigits(n) == IF n < 10 THEN <<"0">> \o IntText(n) ELSE IntText(n)

RECURSIVE LStrip(_)
LStrip(s) ==
    IF s # <<>> /\ Head(s) \in Whitespace THEN LStrip(Tail(s)) ELSE s

RECURSIVE RStrip(_)
RStrip(s) ==
    IF s # <<>> /\ s[Len(s)] \in Whitespace
    THEN RStrip(SubSeq(s, 1, Len(s) - 1))
    ELSE s

\* str.strip()
Strip(s) == With(LStrip(s), LAMBDA l : RStrip(l))

\* str.replace('?', '')
RECURSIVE StripMarks(_)
StripMarks(s) ==
    IF s = <<>> THEN <<>>
    ELSE IF Head(s) = "?" THEN StripMarks(Tail(s))
    ELSE <<Head(s)>> \o StripMarks(Tail(s))

RECURSIVE DigitRun(_, _, _)
\* how many of s[i], s[i+1], ... are digits, counting at most max of them
DigitRun(s, i, max) ==
    IF max = 0 \/ i > Len(s) \/ s[i] \notin Digits THEN 0
    ELSE 1 + DigitRun(s, i + 1, max - 1)

\* \D at position i
NonDigitAt(s, i) == i <= Len(s) /\ s[i] \notin Digits

RECURSIVE SkipSpace(_, _)
\* the first index >= i of s that holds no whitespace (Len(s) + 1 if none)
SkipSpace(s, i) ==
    IF i <= Len(s) /\ s[i] \in Whitespace THEN SkipSpace(s, i + 1) ELSE i

RECURSIVE SkipWord(_, _)
\* the first index >= i of s that holds whitespace (Len(s) + 1 if none)
SkipWord(s, i) ==
    IF i <= Len(s) /\ s[i] \notin Whitespace THEN SkipWord(s, i + 1) ELSE i

\* str.split(None, 2) of a stripped, non-empty line
Split2(s) ==
    With(SkipWord(s, 1), LAMBDA e1 :
    With(SkipSpace(s, e1), LAMBDA b2 :
    With(SkipWord(s, b2), LAMBDA e2 :
    With(SkipSpace(s, e2), LAMBDA b3 :
        IF b2 > Len(s) THEN <<SubSeq(s, 1, e1 - 1)>>
        ELSE IF b3 > Len(s) THEN <<SubSeq(s, 1, e1 - 1), SubSeq(s, b2, e2 - 1)>>
        ELSE <<SubSeq(s, 1, e1 - 1), SubSeq(s, b2, e2 - 1),
               SubSeq(s, b3, Len(s))>>))))

(***************************************************************************)
(* Dates: datetime.date and TimesheetParser.extract_date.                  *)
(***************************************************************************)
CurrentYear == 2026

IsLeap(y) == (y % 4 = 0 /\ y % 100 # 0) \/ y % 400 = 0

DaysInMonth(y, m) ==
    IF m = 2 THEN (IF IsLeap(y) THEN 29 ELSE 28)
    ELSE IF m \in {4, 6, 9, 11} THEN 30 ELSE 31

\* datetime.date(y, m, d) does not raise ValueError
ValidDate(y, m, d) ==
    /\ y >= 1 /\ y <= 9999
    /\ m >= 1 /\ m <= 12
    /\ d >= 1 /\ d <= DaysInMonth(y, m)

Date(y, m, d) == [y |-> y, m |-> m, d |-> d]

\* re.match(r'(\d{1,2})\D(\d{1,2})\D(\d{4}|\d{2})', line): the three groups,
\* or <<>> when there is no match
MatchDMY(s) ==
    With(DigitRun(s, 1, 2), LAMBDA a :
    With(DigitRun(s, a + 2, 2), LAMBDA b :
    With(DigitRun(s, a + b + 3, 4), LAMBDA r :
    With(IF r = 4 THEN 4 ELSE IF r >= 2 THEN 2 ELSE 0, LAMBDA c :
        IF /\ a >= 1 /\ NonDigitAt(s, a + 1)
           /\ b >= 1 /\ NonDigitAt(s, a + b + 2)
           /\ c >= 2
        THEN <<SubSeq(s, 1, a), SubSeq(s, a + 2, a + b + 1),
               SubSeq(s, a + b + 3, a + b + c + 2)>>
        ELSE <<>>))))

\* re.match(r'(\d{4})\D(\d{1,2})\D(\d{1,2})', line)
MatchYMD(s) ==
    With(DigitRun(s, 1, 4), LAMBDA a :
    With(DigitRun(s, 6, 2), LAMBDA b :
    With(DigitRun(s, b + 7, 2), LAMBDA c :
        IF /\ a = 4 /\ NonDigitAt(s, 5)
           /\ b >= 1 /\ NonDigitAt(s, b + 6)
           /\ c >= 1
        THEN <<SubSeq(s, 1, 4), SubSeq(s, 6, b + 5), SubSeq(s, b + 7, b + c + 6)>>
        ELSE <<>>)))

\* extract_date(line): [ok |-> TRUE, date |-> d], or ok = FALSE for a
\* ValueError, which is raised both when neither layout matches ("nomatch")
\* and when datetime.date rejects the numbers ("invalid")
ExtractDate(s) ==
    With(MatchDMY(s), LAMBDA m1 :
    With(IF m1 # <<>> THEN m1 ELSE MatchYMD(s), LAMBDA g :
        IF g = <<>> THEN [ok |-> FALSE, why |-> "nomatch"]
        ELSE
          With(IF Len(g[1]) = 4
               THEN <<IntOf(g[1]), IntOf(g[2]), IntOf(g[3])>>
               ELSE IF Len(g[3]) = 2
               THEN <<(CurrentYear - (CurrentYear % 1000)) + IntOf(g[3]),
                      IntOf(g[2]), IntOf(g[1])>>
               ELSE <<IntOf(g[3]), IntOf(g[2]), IntOf(g[1])>>, LAMBDA ymd :
              IF ValidDate(ymd[1], ymd[2], ymd[3])
              THEN [ok |-> TRUE, date |-> Date(ymd[1], ymd[2], ymd[3])]
              ELSE [ok |-> FALSE, why |-> "invalid"])))

\* date_utils.unicode_strftime(date, '%d.%m.%Y')
FormatDate(d) ==
    TwoDigits(d.d) \o <<".">> \o TwoDigits(d.m) \o <<".">> \o
    (IF d.y < 10 THEN <<"0", "0", "0">> ELSE IF d.y < 100 THEN <<"0", "0">>
     ELSE IF d.y < 1000 THEN <<"0">> ELSE <<>>) \o IntText(d.y)

(***************************************************************************)
(* Durations: TimesheetParser.parse_time.  A duration is a float or a      *)
(* tuple (start, end) of datetime.time values, either of which may be      *)
(* None.  A float is kept as its decimal notation (sign, integer part,     *)
(* fraction digits without trailing zeros), which is exact for the decimal *)
(* tokens modelled here.                                                   *)
(***************************************************************************)
Time(h, m) == [h |-> h, m |-> m]

Float(neg, int, frac) == [kind |-> "float", neg |-> neg, int |-> int, frac |-> frac]

Tuple(start, end) == [kind |-> "tuple", start |-> start, end |-> end]

IsTuple(d) == d.kind = "tuple"

RECURSIVE DropTrailingZeros(_)
DropTrailingZeros(s) ==
    IF s # <<>> /\ s[Len(s)] = "0"
    THEN DropTrailingZeros(SubSeq(s, 1, Len(s) - 1))
    ELSE s

RECURSIVE AllDigits(_)
AllDigits(s) == s = <<>> \/ (Head(s) \in Digits /\ AllDigits(Tail(s)))

RECURSIVE IndexOfDot(_, _)
\* the index of the first "." of s at or after i, or 0
IndexOfDot(s, i) ==
    IF i > Len(s) THEN 0
    ELSE IF s[i] = "." THEN i ELSE IndexOfDot(s, i + 1)

\* float(str_time) for a token in plain decimal notation:
\* [ok |-> TRUE, value |-> Float(..)], or ok = FALSE for a ValueError
ParseFloat(s) ==
    With(s # <<>> /\ Head(s) \in {"+", "-"}, LAMBDA signed :
    With(s # <<>> /\ Head(s) = "-", LAMBDA neg :
    With(IF signed THEN Tail(s) ELSE s, LAMBDA body :
    With(IndexOfDot(body, 1), LAMBDA dot :
    With(IF dot = 0 THEN body ELSE SubSeq(body, 1, dot - 1), LAMBDA ip :
    With(IF dot = 0 THEN <<>> ELSE SubSeq(body, dot + 1, Len(body)), LAMBDA fp :
        IF AllDigits(ip) /\ AllDigits(fp) /\ Len(ip) + Len(fp) >= 1
        THEN [ok |-> TRUE, value |-> Float(neg, IntOf(ip), DropTrailingZeros(fp))]
        ELSE [ok |-> FALSE]))))))

\* the ways (\d{1,2}):?(\d{1,2}) can split its digits, in the order the
\* regular expression engine tries them (greedy first)
PairWidths == <<[a |-> 2, b |-> 2], [a |-> 2, b |-> 1],
                [a |-> 1, b |-> 2], [a |-> 1, b |-> 1]>>

\* (\d{1,2}):?(\d{1,2}) at position i of s with the given widths
PairAt(s, i, w) ==
    With(i + w.a + (IF i + w.a <= Len(s) /\ s[i + w.a] = ":" THEN 1 ELSE 0),
         LAMBDA p :
        IF DigitRun(s, i, w.a) = w.a /\ DigitRun(s, p, w.b) = w.b
        THEN [ok |-> TRUE, h |-> SubSeq(s, i, i + w.a - 1),
              m |-> SubSeq(s, p, p + w.b - 1), next |-> p + w.b]
        ELSE [ok |-> FALSE])

\* (?:(?:(\d{1,2}):?(\d{1,2}))|\?) at position i: groups 3 and 4
EndAt(s, i) ==
    With([k \in 1..Len(PairWidths) |-> PairAt(s, i, PairWidths[k])], LAMBDA try :
    With({k \in 1..Len(PairWidths) : try[k].ok}, LAMBDA fit :
        IF fit # {}
        THEN With(try[CHOOSE k \in fit : \A j \in fit : k <= j], LAMBDA r :
                 [ok |-> TRUE, g3 |-> r.h, g4 |-> r.m])
        ELSE IF i <= Len(s) /\ s[i] = "?"
        THEN [ok |-> TRUE, g3 |-> NoText, g4 |-> NoText]
        ELSE [ok |-> FALSE]))

\* re.match of parse_time's pattern: [ok, g1, g2, g3, g4], a group that did
\* not take part being NoText
MatchTime(s) ==
    With([k \in 1..Len(PairWidths) |-> PairAt(s, 1, PairWidths[k])], LAMBDA try :
    With([k \in 1..Len(PairWidths) |->
             IF try[k].ok /\ try[k].next <= Len(s) /\ s[try[k].next] = "-"
             THEN EndAt(s, try[k].next + 1) ELSE [ok |-> FALSE]], LAMBDA end :
    With({k \in 1..Len(PairWidths) : end[k].ok}, LAMBDA fit :
        IF fit # {}
        THEN With(CHOOSE k \in fit : \A j \in fit : k <= j, LAMBDA k :
                 [ok |-> TRUE, g1 |-> try[k].h, g2 |-> try[k].m,
                  g3 |-> end[k].g3, g4 |-> end[k].g4])
        ELSE IF s # <<>> /\ s[1] = "-"
        THEN With(EndAt(s, 2), LAMBDA e :
                 IF e.ok
                 THEN [ok |-> TRUE, g1 |-> NoText, g2 |-> NoText,
                       g3 |-> e.g3, g4 |-> e.g4]
                 ELSE [ok |-> FALSE])
        ELSE [ok |-> FALSE])))

\* datetime.time(h, m) does not raise ValueError
ValidTime(h, m) == h <= 23 /\ m <= 59

\* parse_time(str_time): [ok |-> TRUE, value |-> duration], or ok = FALSE
\* for a ParseError
ParseTime(s) ==
    With(MatchTime(s), LAMBDA t :
        IF t.ok
        THEN
          LET hasStart == ~(t.g1 = NoText /\ t.g2 = NoText)
              hasEnd   == t.g3 # NoText /\ t.g4 # NoText
              startOk  == ~hasStart \/ ValidTime(IntOf(t.g1), IntOf(t.g2))
              endOk    == ~hasEnd \/ ValidTime(IntOf(t.g3), IntOf(t.g4))
              start    == IF hasStart THEN Time(IntOf(t.g1), IntOf(t.g2)) ELSE NoTime
              end      == IF hasEnd THEN Time(IntOf(t.g3), IntOf(t.g4)) ELSE NoTime
          IN  IF startOk /\ endOk
              THEN [ok |-> TRUE, value |-> Tuple(start, end)]
              ELSE [ok |-> FALSE]
        ELSE
          With(ParseFloat(s), LAMBDA f :
              IF f.ok THEN [ok |-> TRUE, value |-> f.value] ELSE [ok |-> FALSE]))

(***************************************************************************)
(* The line classes of parser.py.  Every line is a TextLine; an EntryLine  *)
(* carries an identity (id), because the collection finds the line of an   *)
(* entry by object identity.                                               *)
(***************************************************************************)
TextLine(t) == [kind |-> "Text", text |-> t]

DateLine(date, t) == [kind |-> "Date", date |-> date, text |-> t]

\* DateLine(date): the text is generated from the date
NewDateLine(date) == DateLine(date, FormatDate(date))

\* EntryLine(alias, duration, description, text); text is NoText when omitted
EntryLine(id, alias, duration, description, t) ==
    [kind |-> "Entry", id |-> id, rawAlias |-> alias, duration |-> duration,
     description |-> description, commented |-> FALSE, ignored |-> FALSE,
     text |-> t]

IsEntryLine(l) == l.kind = "Entry"

IsDateLine(l) == l.kind = "Date"

\* the alias property of EntryLine
LineAlias(l) == StripMarks(l.rawAlias)

\* a __setattr__ that sets the attribute and keeps the cached text
EntryLineSetAttr_KeepsText(l, name, value) ==
    CASE name = "alias"       -> [l EXCEPT !.rawAlias = value]
      [] name = "duration"    -> [l EXCEPT !.duration = value]
      [] name = "description" -> [l EXCEPT !.description = value]
      [] name = "commented"   -> [l EXCEPT !.commented = value]
      [] name = "ignored"     -> [l EXCEPT !.ignored = value]

\* EntryLine.__setattr__ for the attributes an entry mirrors: the attribute
\* is set and the cached text is dropped
EntryLineSetAttr(l, name, value) ==
    LET set == CASE name = "alias"       -> [l EXCEPT !.rawAlias = value]
                 [] name = "duration"    -> [l EXCEPT !.duration = value]
                 [] name = "description" -> [l EXCEPT !.description = value]
                 [] name = "commented"   -> [l EXCEPT !.commented = value]
                 [] name = "ignored"     -> [l EXCEPT !.ignored = value]
    IN  [set EXCEPT !.text = NoText]

\* time.strftime('%H:%M')
FormatTime(t) == TwoDigits(t.h) \o <<":">> \o TwoDigits(t.m)

\* unicode(duration) of a float duration
FormatFloat(f) ==
    (IF f.neg THEN <<"-">> ELSE <<>>) \o IntText(f.int) \o <<".">> \o
    (IF f.frac = <<>> THEN <<"0">> ELSE f.frac)

\* EntryLine.generate_text
GenerateText(l) ==
    LET duration ==
            IF IsTuple(l.duration)
            THEN (IF l.duration.start # NoTime
                  THEN FormatTime(l.duration.start) ELSE <<>>)
                 \o <<"-">> \o
                 (IF l.duration.end # NoTime
                  THEN FormatTime(l.duration.end) ELSE <<"?">>)
            ELSE FormatFloat(l.duration)
        prefix == IF l.commented THEN <<"#", " ">> ELSE <<>>
        alias  == IF l.ignored THEN LineAlias(l) \o <<"?">> ELSE LineAlias(l)
    IN  prefix \o alias \o <<" ">> \o duration \o <<" ">> \o l.description

(***************************************************************************)
(* TimesheetParser.parse: the Document of a text, or a ParseError.         *)
(***************************************************************************)
\* _parse_entry_line(line): [ok |-> TRUE, line |-> EntryLine], or a ParseError
ParseEntryLine(line, id) ==
    With(Split2(line), LAMBDA split :
        IF Len(split) # 3
        THEN [ok |-> FALSE, msg |-> "Couldn't split line into 3 chunks"]
        ELSE With(ParseTime(split[2]), LAMBDA time :
                 IF time.ok
                 THEN [ok |-> TRUE,
                       line |-> EntryLine(id, split[1], time.value, split[3], line)]
                 ELSE [ok |-> FALSE, msg |-> "duration"]))

RECURSIVE Parser(_, _, _, _)
\* parser(lines) from line i on, having yielded acc; inDate is
\* current_date is not None
Parser(raw, i, inDate, acc) ==
    IF i > Len(raw) THEN [ok |-> TRUE, lines |-> acc]
    ELSE
      With(Strip(raw[i]), LAMBDA line :
          IF Len(line) = 0 \/ line[1] = "#"
          THEN With(Append(acc, TextLine(line)), LAMBDA a :
                   Parser(raw, i + 1, inDate, a))
          ELSE
            With(ExtractDate(line), LAMBDA date :
                IF date.ok
                THEN With(Append(acc, DateLine(date.date, line)), LAMBDA a :
                         Parser(raw, i + 1, TRUE, a))
                ELSE IF ~inDate
                THEN [ok |-> FALSE,
                      msg |-> "Entries must be defined inside a date section"]
                ELSE With(ParseEntryLine(line, i), LAMBDA e :
                         IF e.ok
                         THEN With(Append(acc, e.line), LAMBDA a :
                                  Parser(raw, i + 1, inDate, a))
                         ELSE [ok |-> FALSE, msg |-> e.msg])))

\* a parse that starts with a date section already open
Parse_SectionOpen(raw) == Parser(raw, 1, TRUE, <<>>)

\* TimesheetParser.parse(text), text given as text.splitlines()
Parse(raw) == Parser(raw, 1, FALSE, <<>>)

(***************************************************************************)
(* TimesheetEntry and the Document operations of EntriesCollection, as     *)
(* functions of the Document L and the mapping C.                          *)
(***************************************************************************)
\* TimesheetEntry(alias, duration, description): not bound to a line yet
TimesheetEntry(alias, duration, description) ==
    [line |-> NoLine, ignored |-> FALSE, commented |-> FALSE,
     alias |-> alias, description |-> description, duration |-> duration]

\* the lines of L but the one at index i
RemoveAt(L, i) == SubSeq(L, 1, i - 1) \o SubSeq(L, i + 1, Len(L))

\* list.insert(i, x), i counted from 0 as in the code
InsertAt0(L, i, x) == SubSeq(L, 1, i) \o <<x>> \o SubSeq(L, i + 1, Len(L))

\* trim's test "isinstance(line, TextLine) and not line.text.strip()" raises
\* AttributeError on a line whose text is None
BlankTestRaises(l) == l.text = NoText

BlankTest(l) == Strip(l.text) = <<>>

RECURSIVE LeadingRun(_, _)
\* how many lines the first loop of trim passes before it breaks, from i on
LeadingRun(L, i) ==
    IF i > Len(L) \/ BlankTestRaises(L[i]) \/ ~BlankTest(L[i]) THEN 0
    ELSE 1 + LeadingRun(L, i + 1)

RECURSIVE TrailingRun(_, _)
\* the same for the loop over reversed(lines), from i down
TrailingRun(L, i) ==
    IF i < 1 \/ BlankTestRaises(L[i]) \/ ~BlankTest(L[i]) THEN 0
    ELSE 1 + TrailingRun(L, i - 1)

\* trim raises AttributeError: one of its loops reaches a line without text
TrimRaises(L) ==
    With(LeadingRun(L, 1), LAMBDA n :
    With(TrailingRun(L, Len(L)), LAMBDA t :
        \/ n < Len(L) /\ BlankTestRaises(L[n + 1])
        \/ t < Len(L) /\ BlankTestRaises(L[Len(L) - t])))

\* s[:k] of Python, k possibly negative
SliceTo(L, k) ==
    IF k >= 0 THEN SubSeq(L, 1, IF k < Len(L) THEN k ELSE Len(L))
    ELSE SubSeq(L, 1, IF Len(L) + k > 0 THEN Len(L) + k ELSE 0)

\* trim, when it does not raise: the new Document
Trim(L) ==
    With(LeadingRun(L, 1), LAMBDA n :
    With(TrailingRun(L, Len(L)), LAMBDA t :
    With(IF n >= 1 THEN SubSeq(L, n + 1, Len(L)) ELSE L, LAMBDA top :
        IF t >= 1 THEN SliceTo(top, Len(top) - (t - 1) - 1) ELSE top)))

RECURSIVE FindInsertAt(_, _, _, _, _)
\* the loop of add_entry from line i on: insert_at counted from 1, 0 for None
FindInsertAt(L, date, i, inDate, at) ==
    IF i > Len(L) THEN at
    ELSE IF IsDateLine(L[i]) /\ L[i].date = date
    THEN FindInsertAt(L, date, i + 1, TRUE, i)
    ELSE IF inDate /\ IsEntryLine(L[i])
    THEN FindInsertAt(L, date, i + 1, inDate, i)
    ELSE IF inDate /\ IsDateLine(L[i]) THEN at
    ELSE FindInsertAt(L, date, i + 1, inDate, at)

\* a search that stops at the DateLine of the date and never looks at the
\* EntryLines under it
InsertPoint_DateLineOnly(L, date) ==
    LET m == {i \in DOMAIN L : IsDateLine(L[i]) /\ L[i].date = date}
    IN  IF m = {} THEN 0 ELSE CHOOSE i \in m : \A j \in m : j <= i

\* where add_entry puts the new line: after line InsertPoint (0: not found)
InsertPoint(L, date) == FindInsertAt(L, date, 1, FALSE, 0)

\* an add_entry that never separates the entry from the date
NeedsBlank_Never(L, at) == FALSE

\* does add_entry put a blank line before the new entry line
NeedsBlank(L, at) == ~IsEntryLine(L[at])

\* add_entry(date, entry) in synchronized mode, id being the identity of
\* the EntryLine it creates: [lines, entry, error]
AddEntry(L, date, entry, id) ==
    With(InsertPoint(L, date), LAMBDA at :
    With(EntryLine(id, entry.alias, entry.duration, entry.description, NoText),
         LAMBDA newLine :
    With([entry EXCEPT !.line = id], LAMBDA bound :
        IF at = 0
        THEN [lines |-> L, entry |-> bound, error |-> "TypeError"]
        ELSE With(InsertAt0(L, at, newLine), LAMBDA L1 :
                 [lines |-> IF NeedsBlank(L, at)
                            THEN InsertAt0(L1, at, TextLine(<<>>)) ELSE L1,
                  entry |-> bound, error |-> "none"]))))

\* the filter of delete_entries: the lines bound to none of the entries
DeleteEntryLines(L, entries) ==
    With({entries[k].line : k \in DOMAIN entries}, LAMBDA ids :
        SelectSeq(L, LAMBDA l : ~IsEntryLine(l) \/ l.id \notin ids))

\* the filter of delete_date
DeleteDateLines(L, date) ==
    SelectSeq(L, LAMBDA l : ~IsDateLine(l) \/ l.date # date)

\* an add_date whose two inserts at the top come in the other order
AddDate_BlankFirst(L, toBottom, date) ==
    IF toBottom THEN Append(L, NewDateLine(date))
    ELSE <<TextLine(<<>>), NewDateLine(date)>> \o L

\* add_date(date) in synchronized mode
AddDate(L, toBottom, date) ==
    IF toBottom THEN Append(L, NewDateLine(date))
    ELSE <<NewDateLine(date), TextLine(<<>>)>> \o L

\* the Document after an attribute of the line with this identity is set
SetLineAttr(L, id, name, value) ==
    [i \in DOMAIN L |->
        IF IsEntryLine(L[i]) /\ L[i].id = id
        THEN EntryLineSetAttr(L[i], name, value) ELSE L[i]]

\* an append that never completes a range from the entry before
Chains_Never(list, x) == FALSE

\* range chaining applies to x appended after the entries of list
Chains(list, x) ==
    /\ Len(list) >= 1
    /\ IsTuple(x.duration)
    /\ IsTuple(list[Len(list)].duration)
    /\ x.duration.start = NoTime

\* EntriesList.append(x) on the list of date: [lines, coll, error, entry]
ListAppend(L, C, sync, date, x, id) ==
    With(C[date], LAMBDA list :
    With(Chains(list, x), LAMBDA chains :
    With(IF chains
         THEN [x EXCEPT !.duration =
                  Tuple(list[Len(list)].duration.end, x.duration.end)]
         ELSE x, LAMBDA x1 :
    \* TimesheetEntry.__setattr__ mirrors the new duration to a bound line
    With(IF chains /\ x.line # NoLine
         THEN SetLineAttr(L, x.line, "duration", x1.duration) ELSE L, LAMBDA L1 :
        IF sync
        THEN With(AddEntry(L1, date, x1, id), LAMBDA add :
                 [lines |-> add.lines,
                  coll  |-> [C EXCEPT ![date] = Append(list, add.entry)],
                  error |-> add.error])
        ELSE [lines |-> L1,
              coll  |-> [C EXCEPT ![date] = Append(list, x1)],
              error |-> "none"]))))

\* C with the key date bound to list (a new key or an old one)
WithKey(C, date, list) ==
    [d \in DOMAIN C \cup {date} |-> IF d = date THEN list ELSE C[d]]

\* C without the key date
WithoutKey(C, date) == [d \in DOMAIN C \ {date} |-> C[d]]

RECURSIVE Replay(_, _, _, _)
\* the loop of init_from_str from line i on, synchronization being off;
\* cur is current_date
Replay(L, C, i, cur) ==
    IF i > Len(L) THEN [lines |-> L, coll |-> C]
    ELSE IF IsDateLine(L[i])
    THEN With(L[i].date, LAMBDA date : Replay(L, C, i + 1, date))
    ELSE IF IsEntryLine(L[i])
    THEN With([TimesheetEntry(LineAlias(L[i]), L[i].duration, L[i].description)
                  EXCEPT !.line = L[i].id], LAMBDA e :
         With(IF cur \in DOMAIN C THEN C ELSE WithKey(C, cur, <<>>), LAMBDA C1 :
         With(ListAppend(L, C1, FALSE, cur, e, 0), LAMBDA r :
             Replay(r.lines, r.coll, i + 1, cur))))
    ELSE Replay(L, C, i + 1, cur)

(***************************************************************************)
(* Inputs: the lines a text is made of, the dates and the entries the      *)
(* session works with.                                                     *)
(***************************************************************************)
D1 == Date(2020, 1, 1)

D2 == Date(2020, 1, 2)

OpDates == {D1, D2}

\* the lines of the texts a session starts from
SessionPool ==
    { <<>>,                                                  \* blank
      <<"#">>,                                               \* comment
      <<"1", ".", "1", ".", "2", "0", "2", "0">>,            \* D1, d.m.yyyy
      <<"2", "0", "2", "0", "/", "1", "/", "2">>,            \* D2, yyyy/m/d
      <<"a", " ", "9", ":", "0", "0", "-", "1", "0", ":", "0", "0", " ", "x">> }

\* the lines of the texts handed to the constructor alone
LinePool ==
    SessionPool \cup
    { <<"a", " ", "-", "1", "1", ":", "3", "0", " ", "x">>,  \* open start
      <<" ", "a", "?", " ", "2", " ", "x">>,                 \* hours, padded
      <<"3", "2", ".", "1", ".", "2", "0", "2", "0", " ", "2", " ", "x">>,
                                                             \* no such day
      <<"a", " ", "f", "o", "o", " ", "x">> }                \* no duration

RECURSIVE TextsOfLength(_, _)
TextsOfLength(pool, n) ==
    IF n = 0 THEN {<<>>}
    ELSE {Append(t, l) : t \in TextsOfLength(pool, n - 1), l \in pool}

Texts == UNION {TextsOfLength(LinePool, n) : n \in 0..MaxTextLines}

SessionTexts == UNION {TextsOfLength(SessionPool, n) : n \in 0..MaxSessionLines}

NewEntries ==
    { TimesheetEntry(<<"a">>, Tuple(Time(9, 0), Time(10, 0)), <<"x">>),
      TimesheetEntry(<<"a">>, Tuple(NoTime, Time(11, 30)), <<"x">>) }

\* last: the operation, its date, and which of its two cases it met
NoOp == [op |-> "none", date |-> D1, case |-> FALSE]

Op(name, date, case) == [op |-> name, date |-> date, case |-> case]

EmptyColl == [d \in {} |-> <<>>]

(***************************************************************************)
(* EntriesCollection.__init__                                              *)
(***************************************************************************)
\* the fields are set; "if entries:" comes next
Constructing(texts) ==
    /\ pc = "new"
    /\ text \in texts
    /\ lines = <<>>
    /\ coll = EmptyColl
    /\ synchronized = TRUE
    /\ bottom = FALSE
    /\ nextId = Len(text) + 1
    /\ error = "none"
    /\ last = NoOp

\* no initial entries: the constructor returns
ConstructEmpty ==
    /\ pc = "new" /\ text = <<>>
    /\ pc' = "ready"
    /\ UNCHANGED <<text, lines, coll, synchronized, bottom, nextId, error, last>>

\* initial entries: synchronization is switched off for the import
BeginLoad ==
    /\ pc = "new" /\ text # <<>>
    /\ synchronized' = FALSE
    /\ pc' = "loading"
    /\ UNCHANGED <<text, lines, coll, bottom, nextId, error, last>>

\* init_from_str(entries)
InitFromStr ==
    /\ pc = "loading"
    /\ \E parsed \in {Parse(text)} :
          /\ IF parsed.ok
             THEN \E r \in {Replay(parsed.lines, coll, 1, D1)} :
                     /\ lines' = r.lines
                     /\ coll' = r.coll
                     /\ error' = "none"
             ELSE /\ error' = "ParseError"
                  /\ UNCHANGED <<lines, coll>>
          /\ last' = Op("load", D1, parsed.ok)
    /\ pc' = "finally"
    /\ UNCHANGED <<text, synchronized, bottom, nextId>>

\* a constructor without the finally clause: a ParseError leaves it with
\* synchronization still off
EndLoad_NoFinally ==
    /\ pc = "finally"
    /\ synchronized' = (error = "none")
    /\ pc' = IF error = "none" THEN "ready" ELSE "failed"
    /\ UNCHANGED <<text, lines, coll, bottom, nextId, error, last>>

\* finally: synchronization is switched on again; a ParseError leaves the
\* constructor
EndLoad ==
    /\ pc = "finally"
    /\ synchronized' = TRUE
    /\ pc' = IF error = "none" THEN "ready" ELSE "failed"
    /\ UNCHANGED <<text, lines, coll, bottom, nextId, error, last>>

(***************************************************************************)
(* The session: operations on a constructed collection.  An operation that *)
(* raises leaves the state as it was when the exception left it, and the   *)
(* session ends there.                                                     *)
(***************************************************************************)
Ready == pc = "ready" /\ error = "none"

\* the Document has room for n more lines (the bound of the model: a
\* session can make the Document grow without limit)
Room(n) == Len(lines) + n <= MaxDocLines

\* collection.add_date_to_bottom = b, which the owner of the collection sets
\* once it is constructed, before it works with it
SetAddDateToBottom(b) ==
    /\ Ready
    /\ last.op \in {"none", "load"}
    /\ bottom # b
    /\ bottom' = b
    /\ last' = Op("option", D1, b)
    /\ UNCHANGED <<pc, text, lines, coll, synchronized, nextId, error>>

\* __missing__(key), as a function: [lines, coll]
Missing(L, C, sync, toBottom, date) ==
    [lines |-> IF sync THEN AddDate(L, toBottom, date) ELSE L,
     coll  |-> WithKey(C, date, <<>>)]

\* collection[date]
Get(date) ==
    /\ Ready
    /\ Room(2)
    /\ \E r \in {IF date \in DOMAIN coll THEN [lines |-> lines, coll |-> coll]
                 ELSE Missing(lines, coll, synchronized, bottom, date)} :
          /\ lines' = r.lines
          /\ coll' = r.coll
    /\ last' = Op("get", date, date \in DOMAIN coll)
    /\ UNCHANGED <<pc, text, synchronized, bottom, nextId, error>>

\* collection[date].append(x), the list of date being there already, x a
\* new TimesheetEntry
AppendEntry(date, x) ==
    /\ Ready
    /\ date \in DOMAIN coll
    /\ nextId <= Len(text) + MaxNewEntries
    /\ Room(2)
    /\ \E r \in {ListAppend(lines, coll, synchronized, date, x, nextId)} :
          /\ lines' = r.lines
          /\ coll' = r.coll
          /\ error' = r.error
    /\ nextId' = nextId + 1
    /\ last' = Op("append", date, coll[date] # <<>>)
    /\ UNCHANGED <<pc, text, synchronized, bottom>>

\* EntriesList.__delitem__(key) as a function, k counted from 1:
\* [lines, coll, error]
ListDelItem(L, C, sync, date, k) ==
    With(C[date], LAMBDA list :
    With(RemoveAt(list, k), LAMBDA list1 :
    With([C EXCEPT ![date] = list1], LAMBDA C1 :
        IF ~sync THEN [lines |-> L, coll |-> C1, error |-> "none"]
        ELSE
          With(DeleteEntryLines(L, <<list[k]>>), LAMBDA L1 :
              IF TrimRaises(L1)
              THEN [lines |-> L1, coll |-> C, error |-> "AttributeError"]
              ELSE IF list1 # <<>>
              THEN [lines |-> Trim(L1), coll |-> C1, error |-> "none"]
              ELSE
                With(DeleteDateLines(Trim(L1), date), LAMBDA L3 :
                    IF TrimRaises(L3)
                    THEN [lines |-> L3, coll |-> C1, error |-> "AttributeError"]
                    ELSE [lines |-> Trim(L3), coll |-> C1, error |-> "none"])))))

\* del collection[date][k]
DelEntry(date, k) ==
    /\ Ready
    /\ date \in DOMAIN coll
    /\ k \in DOMAIN coll[date]
    /\ \E r \in {ListDelItem(lines, coll, synchronized, date, k)} :
          /\ lines' = r.lines
          /\ coll' = r.coll
          /\ error' = r.error
    /\ last' = Op("delentry", date, Len(coll[date]) = 1)
    /\ UNCHANGED <<pc, text, synchronized, bottom, nextId>>

\* EntriesCollection.__delitem__(key) as a function: [lines, coll, error]
CollDelItem(L, C, sync, toBottom, date) ==
    With(IF date \in DOMAIN C THEN [lines |-> L, coll |-> C]
         ELSE Missing(L, C, sync, toBottom, date), LAMBDA m :
        IF ~sync
        THEN [lines |-> L, coll |-> WithoutKey(m.coll, date), error |-> "none"]
        ELSE
          With(DeleteEntryLines(m.lines, m.coll[date]), LAMBDA L1 :
              IF TrimRaises(L1)
              THEN [lines |-> L1, coll |-> m.coll, error |-> "AttributeError"]
              ELSE
                With(DeleteDateLines(Trim(L1), date), LAMBDA L2 :
                    IF TrimRaises(L2)
                    THEN [lines |-> L2, coll |-> m.coll, error |-> "AttributeError"]
                    ELSE [lines |-> Trim(L2), coll |-> WithoutKey(m.coll, date),
                          error |-> "none"])))

\* del collection[date]
DelDate(date) ==
    /\ Ready
    /\ \E r \in {CollDelItem(lines, coll, synchronized, bottom, date)} :
          /\ lines' = r.lines
          /\ coll' = r.coll
          /\ error' = r.error
    /\ last' = Op("deldate", date, date \in DOMAIN coll)
    /\ UNCHANGED <<pc, text, synchronized, bottom, nextId>>

\* the constructor alone, on every text
LoadInit == Constructing(Texts)

LoadNext ==
    \/ ConstructEmpty
    \/ BeginLoad
    \/ InitFromStr
    \/ EndLoad

LoadSpec == LoadInit /\ [][LoadNext]_vars

\* the constructor and the session that follows it
Init == Constructing(SessionTexts)

Next ==
    \/ ConstructEmpty
    \/ BeginLoad
    \/ InitFromStr
    \/ EndLoad
    \/ \E b \in BOOLEAN : SetAddDateToBottom(b)
    \/ \E d \in OpDates : Get(d)
    \/ \E d \in OpDates, x \in NewEntries : AppendEntry(d, x)
    \/ \E d \in OpDates, k \in 1..(MaxSessionLines + MaxNewEntries) : DelEntry(d, k)
    \/ \E d \in OpDates : DelDate(d)

Spec == Init /\ [][Next]_vars

(***************************************************************************)
(* Serialization, as the round-trip property defines it: one output line   *)
(* per Document line, an EntryLine giving its cached text when it has one  *)
(* and its regenerated text otherwise.                                     *)
(***************************************************************************)
Serialize(L) ==
    [i \in DOMAIN L |->
        IF IsEntryLine(L[i]) /\ L[i].text = NoText
        THEN GenerateText(L[i]) ELSE L[i].text]

(***************************************************************************)
(* Vocabulary of the properties.                                           *)
(***************************************************************************)
NoDate == [none |-> TRUE]

RECURSIVE SectionIds(_, _, _, _)
\* the identities of the EntryLines of L, from line i on, whose nearest
\* preceding DateLine is one of date; cur is the date of the nearest
\* DateLine before line i
SectionIds(L, date, i, cur) ==
    IF i > Len(L) THEN <<>>
    ELSE IF IsDateLine(L[i]) THEN SectionIds(L, date, i + 1, L[i].date)
    ELSE IF IsEntryLine(L[i]) /\ cur = date
    THEN <<L[i].id>> \o SectionIds(L, date, i + 1, cur)
    ELSE SectionIds(L, date, i + 1, cur)

\* the EntryLines under the DateLines of date, in Document order
EntriesUnder(L, date) == SectionIds(L, date, 1, NoDate)

\* the lines the entries of the list of date are bound to, in list order
BoundIds(C, date) == [k \in DOMAIN C[date] |-> C[date][k].line]

\* the entries of the collection bound to the line with this identity
Owners(C, id) ==
    {<<d, k>> \in {<<d, k>> \in (DOMAIN C) \X (1..MaxDocLines + 2) :
                      k \in DOMAIN C[d]} : C[d][k].line = id}

DatesOf(L) == {L[i].date : i \in {j \in DOMAIN L : IsDateLine(L[j])}}

HasDateLine(L, date) == date \in DatesOf(L)

\* the Document and the collection agree
Agreement ==
    /\ \A d \in DatesOf(lines) \cup DOMAIN coll :
          EntriesUnder(lines, d) =
              IF d \in DOMAIN coll THEN BoundIds(coll, d) ELSE <<>>
    /\ \A i \in DOMAIN lines :
          IsEntryLine(lines[i]) => Cardinality(Owners(coll, lines[i].id)) = 1

\* the constructor has returned and the session goes on
InSession == pc = "ready"

(***************************************************************************)
(* C1.  After the construction and any sequence of synchronized            *)
(* operations the Document and the collection agree: under every date the  *)
(* EntryRecord lines are, in order, the lines bound to the entries of that *)
(* date's list, and every EntryRecord line is bound to exactly one entry.  *)
(***************************************************************************)
C1_DocumentAgreesWithCollection == InSession => Agreement

(***************************************************************************)
(* C2.  Round trip: serializing the Document of a bulk load gives back     *)
(* exactly the text that was loaded.                                       *)
(***************************************************************************)
C2_RoundTrip == InSession /\ error = "none" => Serialize(lines) = text

(***************************************************************************)
(* C3.  Bulk load leaves the Document exactly as the parser produced it:   *)
(* no line inserted, removed, reordered or changed while the mapping is    *)
(* built.                                                                  *)
(***************************************************************************)
C3_BulkLoadKeepsDocument ==
    pc = "finally" /\ error = "none" => lines = Parse(text).lines

(***************************************************************************)
(* C4.  In synchronized mode no get, append, entry deletion or date        *)
(* deletion raises an error.                                               *)
(***************************************************************************)
C4_NoOperationRaises == InSession /\ synchronized => error = "none"

(***************************************************************************)
(* C5.  Deleting the last remaining entry of a date's list removes the     *)
(* date's DateMarker line from the Document and the date's list from the   *)
(* collection.  Stated of the deletions that complete.                     *)
(***************************************************************************)
C5_LastEntryDeletionRemovesDate ==
    [][ (last'.op = "delentry" /\ last'.case /\ error' = "none")
        => (~HasDateLine(lines', last'.date) /\ last'.date \notin DOMAIN coll')
      ]_vars

(***************************************************************************)
(* Vocabulary of the properties of one operation.  A step of the session   *)
(* is told by last', a line by its place in the Document before the step.  *)
(***************************************************************************)
AppendTo(d) == last'.op = "append" /\ last'.date = d

IsBlank(l) == l.kind = "Text" /\ Strip(l.text) = <<>>

MarkerIndexes(L, date) == {i \in DOMAIN L : IsDateLine(L[i]) /\ L[i].date = date}

RECURSIVE SectionDate(_, _)
\* the date of the nearest DateLine before line i of L, NoDate if none
SectionDate(L, i) ==
    IF i < 1 THEN NoDate
    ELSE IF IsDateLine(L[i]) THEN L[i].date ELSE SectionDate(L, i - 1)

\* the places of the EntryLines under the DateLines of date
EntryIndexes(L, date) ==
    {i \in DOMAIN L : IsEntryLine(L[i]) /\ SectionDate(L, i) = date}

Max(S) == CHOOSE i \in S : \A j \in S : j <= i

LineIds(L) == {L[i].id : i \in {j \in DOMAIN L : IsEntryLine(L[j])}}

\* the last entry of the list of d is bound to the line l, which is new
\* and carries the entry's fields
BindsNew(d, l) ==
    /\ IsEntryLine(l)
    /\ l.id \notin LineIds(lines)
    /\ coll'[d] # <<>>
    /\ LET e == coll'[d][Len(coll'[d])]
       IN  /\ e.line = l.id
           /\ l.rawAlias = e.alias /\ l.duration = e.duration
           /\ l.description = e.description

\* the step puts exactly one new EntryRecord line right after the last
\* EntryRecord line under d and nothing else
InsertsAfterLastEntry(d) ==
    LET p == Max(EntryIndexes(lines, d))
    IN  /\ Len(lines') = Len(lines) + 1
        /\ lines' = InsertAt0(lines, p, lines'[p + 1])
        /\ BindsNew(d, lines'[p + 1])

C7_AppendUnderBareMarker ==
    [][ \A d \in OpDates :
          (/\ AppendTo(d) /\ synchronized
           /\ MarkerIndexes(lines, d) # {} /\ EntryIndexes(lines, d) = {})
          => \E i \in MarkerIndexes(lines, d) :
                /\ Len(lines') = Len(lines) + 2
                /\ lines' = SubSeq(lines, 1, i) \o <<TextLine(<<>>), lines'[i + 2]>>
                               \o SubSeq(lines, i + 1, Len(lines))
                /\ BindsNew(d, lines'[i + 2])
      ]_vars

\* an append to a date with a DateMarker and no entry has run
C7_Witness ==
    /\ last.op = "append" /\ ~last.case /\ error = "none"
    /\ Len(coll[last.date]) = 1
    /\ Cardinality(EntryIndexes(lines, last.date)) = 1

(***************************************************************************)
(* C8.  get(date) of a date without a list creates an empty list and       *)
(* inserts one DateMarker line of the date: first in the Document,         *)
(* followed by one blank line, when new dates go to the top, last in the   *)
(* Document when they go to the bottom; the lines that were there keep     *)
(* their order.  get(date) of a date with a list changes nothing.          *)
(***************************************************************************)
C8_GetCreatesDate ==
    [][ \A d \in OpDates :
          (last'.op = "get" /\ last'.date = d /\ synchronized)
          => IF d \in DOMAIN coll
             THEN lines' = lines /\ coll' = coll
             ELSE /\ DOMAIN coll' = DOMAIN coll \cup {d}
                  /\ coll'[d] = <<>>
                  /\ \A o \in DOMAIN coll : coll'[o] = coll[o]
                  /\ lines' = IF bottom
                              THEN lines \o <<DateLine(d, FormatDate(d))>>
                              ELSE <<DateLine(d, FormatDate(d)), TextLine(<<>>)>>
                                   \o lines
      ]_vars

\* a get of a date without a list has run on a Document that had lines
C8_Witness ==
    /\ last.op = "get" /\ ~last.case
    /\ coll[last.date] = <<>>
    /\ Len(lines) >= 3

(***************************************************************************)
(* Vocabulary of the deletions.                                            *)
(***************************************************************************)
Min(S) == CHOOSE i \in S : \A j \in S : i <= j

\* the identities of the lines the entries of the list of d are bound to
DateIds(C, d) ==
    IF d \in DOMAIN C THEN {C[d][k].line : k \in DOMAIN C[d]} ELSE {}

\* L without its leading and its trailing run of blank lines
WithoutBlankEnds(L) ==
    LET nb == {i \in DOMAIN L : ~IsBlank(L[i])}
    IN  IF nb = {} THEN <<>> ELSE SubSeq(L, Min(nb), Max(nb))

\* the line is a DateMarker of d or is bound to one of ids
Goes(l, d, ids) ==
    \/ IsDateLine(l) /\ l.date = d
    \/ IsEntryLine(l) /\ l.id \in ids

(***************************************************************************)
(* C9.  In synchronized mode, del collection[date] removes from the        *)
(* Document the DateMarker line of the date and every line bound to an     *)
(* entry of the date, removes the key from the collection, and leaves the  *)
(* DateMarkers, EntryRecords and comments of the other dates present and   *)
(* in their order.                                                         *)
(***************************************************************************)
C9_DateDeletionRemovesItsLines ==
    [][ \A d \in OpDates :
          (last'.op = "deldate" /\ last'.date = d /\ synchronized)
          => /\ ~HasDateLine(lines', d)
             /\ LineIds(lines') \cap DateIds(coll, d) = {}
             /\ d \notin DOMAIN coll'
             /\ SelectSeq(lines', LAMBDA l : ~IsBlank(l))
                  = SelectSeq(lines, LAMBDA l :
                        ~IsBlank(l) /\ ~Goes(l, d, DateIds(coll, d)))
      ]_vars

(***************************************************************************)
(* C10.  After an entry deletion or a date deletion in synchronized mode   *)
(* the Document has no blank line at its start and none at its end, and    *)
(* it is the Document of before without the deleted lines and without the  *)
(* leading and trailing blank runs: the other lines are there, unchanged   *)
(* and in their order, interior blank lines included.                      *)
(***************************************************************************)
C10_DeletionTrimsOnlyTheEnds ==
    [][ \A d \in OpDates :
          (last'.op \in {"delentry", "deldate"} /\ last'.date = d /\ synchronized)
          => LET gone == IF last'.op = "deldate" THEN DateIds(coll, d)
                         ELSE DateIds(coll, d) \ DateIds(coll', d)
                 date == IF last'.op = "deldate" \/ last'.case THEN d ELSE NoDate
             IN  /\ lines' # <<>> =>
                       ~IsBlank(lines'[1]) /\ ~IsBlank(lines'[Len(lines')])
                 /\ lines' = WithoutBlankEnds(
                                SelectSeq(lines, LAMBDA l : ~Goes(l, date, gone)))
      ]_vars

(***************************************************************************)
(* TimesheetEntry: hours, is_ignored and attribute assignment.  hours is   *)
(* the float duration itself, or a number of seconds standing for          *)
(* seconds / 3600.0.                                                       *)
(***************************************************************************)
Seconds(n) == [kind |-> "seconds", n |-> n]

\* (time_end - time_start).seconds: a timedelta keeps 0 <= seconds < 86400
\* and carries the sign in its days
TimedeltaSeconds(start, end) ==
    (((end.h * 60 + end.m) - (start.h * 60 + start.m)) * 60) % 86400

\* the hours property
Hours(e) ==
    IF IsTuple(e.duration)
    THEN IF e.duration.start = NoTime \/ e.duration.end = NoTime
         THEN Seconds(0)
         ELSE Seconds(TimedeltaSeconds(e.duration.start, e.duration.end))
    ELSE e.duration

\* hours == 0
IsZeroHours(h) ==
    IF h.kind = "seconds" THEN h.n = 0 ELSE h.int = 0 /\ h.frac = <<>>

\* is_ignored()
IsIgnored(e) == e.ignored \/ IsZeroHours(Hours(e))

\* TimesheetEntry.__setattr__(name, value) on an entry of the collection:
\* the entry's attribute is set and, the entry being bound to a line, the
\* line's attribute of that name is set too: [lines, entry]
TimesheetEntrySetAttr(L, e, name, value) ==
    [lines |-> IF e.line # NoLine THEN SetLineAttr(L, e.line, name, value) ELSE L,
     entry |-> CASE name = "alias"       -> [e EXCEPT !.alias = value]
                 [] name = "duration"    -> [e EXCEPT !.duration = value]
                 [] name = "description" -> [e EXCEPT !.description = value]
                 [] name = "commented"   -> [e EXCEPT !.commented = value]
                 [] name = "ignored"     -> [e EXCEPT !.ignored = value]]

(***************************************************************************)
(* The editing session: a collection is loaded, entries are appended,      *)
(* attributes of entries are assigned and the Document is trimmed.         *)
(***************************************************************************)
\* assignments of attributes a session makes
MaxAssignments == 1

\* the lines of the texts an editing session starts from
EditPool ==
    { <<"#">>,                                               \* comment
      <<"1", ".", "1", ".", "2", "0", "2", "0">>,            \* D1
      <<"a", " ", "9", ":", "0", "0", "-", "1", "0", ":", "0", "0", " ", "x">>,
      <<"a", "?", " ", "2", " ", "x">> }                     \* hours, ignored

EditTexts == UNION {TextsOfLength(EditPool, n) : n \in 0..MaxSessionLines}

\* the entries an editing session appends: those of NewEntries and one
\* whose ignored flag was set before it is appended
EditEntries ==
    NewEntries \cup
    { [TimesheetEntry(<<"a">>, Tuple(Time(9, 0), Time(10, 0)), <<"x">>)
          EXCEPT !.ignored = TRUE] }

\* the assignments an editing session makes: attribute and value
Assignments ==
    { <<"alias", <<"b">> >>, <<"duration", Float(FALSE, 3, <<>>)>>,
      <<"description", <<"y">> >>, <<"commented", TRUE>>, <<"ignored", TRUE>> }

\* how many attributes of the entries of C hold an assigned value
Assigned(C) ==
    Cardinality({t \in (DOMAIN C) \X (1..MaxDocLines) \X Assignments :
                    /\ t[2] \in DOMAIN C[t[1]]
                    /\ LET e == C[t[1]][t[2]]
                           a == t[3]
                       IN  CASE a[1] = "alias"       -> e.alias = a[2]
                             [] a[1] = "duration"    -> e.duration = a[2]
                             [] a[1] = "description" -> e.description = a[2]
                             [] a[1] = "commented"   -> e.commented = a[2]
                             [] a[1] = "ignored"     -> e.ignored = a[2]})

\* collection[date][k].<name> = value
SetEntryAttr(date, k, name, value) ==
    /\ Ready
    /\ date \in DOMAIN coll
    /\ k \in DOMAIN coll[date]
    /\ Assigned(coll) < MaxAssignments
    /\ \E r \in {TimesheetEntrySetAttr(lines, coll[date][k], name, value)} :
          /\ lines' = r.lines
          /\ coll' = [coll EXCEPT ![date][k] = r.entry]
    /\ last' = Op(name, date, k)
    /\ UNCHANGED <<pc, text, synchronized, bottom, nextId, error>>

\* collection.trim()
TrimDoc ==
    /\ Ready
    /\ IF TrimRaises(lines)
       THEN error' = "AttributeError" /\ lines' = lines
       ELSE error' = "none" /\ lines' = Trim(lines)
    /\ last' = Op("trim", D1, TrimRaises(lines))
    /\ UNCHANGED <<pc, text, coll, synchronized, bottom, nextId>>

EditInit == Constructing(EditTexts)

EditNext ==
    \/ ConstructEmpty
    \/ BeginLoad
    \/ InitFromStr
    \/ EndLoad
    \/ \E d \in OpDates : Get(d)
    \/ \E d \in OpDates, x \in EditEntries : AppendEntry(d, x)
    \/ \E d \in OpDates, k \in 1..(MaxSessionLines + MaxNewEntries),
          a \in Assignments : SetEntryAttr(d, k, a[1], a[2])
    \/ TrimDoc

EditSpec == EditInit /\ [][EditNext]_vars

(***************************************************************************)
(* C11.  Range chaining: an entry appended with a time range whose start   *)
(* is unset, right after an entry of the same list whose duration is a     *)
(* time range, gets that entry's end as its start and keeps its own end    *)
(* ("09:00-10:00" then "-11:30": hours 1.0 and 1.5); in every other case   *)
(* the appended entry keeps its duration; the durations of the earlier     *)
(* entries never change.                                                   *)
(***************************************************************************)
C11_RangeChaining ==
    [][ \A d \in OpDates :
          AppendTo(d) =>
            LET n   == Len(coll[d])
                new == coll'[d][n + 1]
            IN  /\ Len(coll'[d]) = n + 1
                /\ \A k \in 1..n : coll'[d][k].duration = coll[d][k].duration
                /\ \E x \in EditEntries :
                      /\ new.alias = x.alias /\ new.description = x.description
                      /\ new.ignored = x.ignored
                      /\ IF /\ IsTuple(x.duration) /\ x.duration.start = NoTime
                            /\ n >= 1 /\ IsTuple(coll[d][n].duration)
                         THEN /\ new.duration.start = coll[d][n].duration.end
                              /\ new.duration.end = x.duration.end
                              /\ (/\ coll[d][n].duration = Tuple(Time(9, 0), Time(10, 0))
                                  /\ x.duration.end = Time(11, 30))
                                 => /\ Hours(coll'[d][n]) = Seconds(3600)
                                    /\ Hours(new) = Seconds(5400)
                         ELSE new.duration = x.duration
      ]_vars

\* "-11:30" has been appended after "09:00-10:00"
C11_Witness ==
    /\ last.op = "append" /\ error = "none"
    /\ LET l == coll[last.date]
       IN  /\ Len(l) >= 2
           /\ l[Len(l) - 1].duration = Tuple(Time(9, 0), Time(10, 0))
           /\ l[Len(l)].duration = Tuple(Time(10, 0), Time(11, 30))

(***************************************************************************)
(* C12.  The synchronized flag is true when the collection is created, is  *)
(* false only while a bulk load from text is in progress, and is true      *)
(* again once the load has ended, normally or with a ParseError; no        *)
(* operation of the session (get, append, delete, trim) changes it.        *)
(***************************************************************************)
C12_SynchronizedOnlyOffWhileLoading ==
    /\ [](synchronized <=> pc \notin {"loading", "finally"})
    /\ [][(pc \in {"ready", "failed"}) => (synchronized' = synchronized)]_vars

\* a load has ended with a ParseError
C12_Witness == pc = "failed" /\ error = "ParseError" /\ synchronized

\* the entry line the entry e is bound to
LineOf(e) == CHOOSE i \in DOMAIN lines : IsEntryLine(lines[i]) /\ lines[i].id = e.line

\* the bulk load has run to its end without a ParseError
Loaded == pc \in {"finally", "ready"} /\ error = "none"

(***************************************************************************)
(* C13.  After a bulk load, an entry line whose alias token ends with "?"  *)
(* yields an entry whose alias has the "?" stripped and which is ignored:  *)
(* its ignored flag is set and is_ignored() is true whatever its duration. *)
(***************************************************************************)
C13_QuestionMarkMeansIgnored ==
    Loaded =>
        \A d \in DOMAIN coll : \A k \in DOMAIN coll[d] :
            LET e == coll[d][k]
                token == lines[LineOf(e)].rawAlias
            IN  token[Len(token)] = "?" =>
                    /\ e.alias = SubSeq(token, 1, Len(token) - 1)
                    /\ e.ignored
                    /\ IsIgnored(e)

(***************************************************************************)
(* The duration of one entry: parse_time applied to a token, the entry made *)
(* of the result, and its hours.                                            *)
(***************************************************************************)
MaxTokenLen == 5    \* characters of a duration token

TokenAlphabet == {"-", "?", "1", "9", ":", "."}

RECURSIVE TokensOfLength(_)
TokensOfLength(n) ==
    IF n = 0 THEN {<<>>}
    ELSE {Append(t, c) : t \in TokensOfLength(n - 1), c \in TokenAlphabet}

\* the tokens of 1 to n characters
TokensUpTo(n) == UNION {TokensOfLength(k) : k \in 1..n}

\* the token is the only "line" of text; nothing is parsed yet
DurationInit ==
    /\ pc = "token"
    /\ \E t \in TokensUpTo(MaxTokenLen) : text = <<t>>
    /\ lines = <<>>
    /\ coll = EmptyColl
    /\ synchronized = TRUE
    /\ bottom = FALSE
    /\ nextId = 1
    /\ error = "none"
    /\ last = NoOp

\* parse_time(token); its value becomes the duration of a new entry
ParseToken ==
    /\ pc = "token"
    /\ \E t \in {ParseTime(text[1])} :
          IF t.ok
          THEN /\ coll' = WithKey(coll, D1, <<TimesheetEntry(<<"a">>, t.value, <<"x">>)>>)
               /\ error' = "none"
               /\ pc' = "parsed"
          ELSE /\ coll' = coll
               /\ error' = "ParseError"
               /\ pc' = "rejected"
    /\ last' = Op("parse_time", D1, FALSE)
    /\ UNCHANGED <<text, lines, synchronized, bottom, nextId>>

\* entry.hours
TakeHours ==
    /\ pc = "parsed"
    /\ \E h \in {Hours(coll[D1][1])} : last' = Op("hours", D1, h)
    /\ pc' = "timed"
    /\ UNCHANGED <<text, lines, coll, synchronized, bottom, nextId, error>>

DurationNext == ParseToken \/ TakeHours

DurationSpec == DurationInit /\ [][DurationNext]_vars

(***************************************************************************)
(* C14.  The hours of an entry equal the numeric duration when the         *)
(* duration is a number; equal (end - start) in hours when it is a range   *)
(* with both endpoints set, also when end is earlier than start; and equal *)
(* 0 when an endpoint of the range is unset.                               *)
(***************************************************************************)
C14_HoursIsEndMinusStart ==
    pc = "timed" =>
        LET d == coll[D1][1].duration
            h == last.case
        IN  IF ~IsTuple(d) THEN h = d
            ELSE IF d.start = NoTime \/ d.end = NoTime THEN h = Seconds(0)
            ELSE h = Seconds(((d.end.h * 60 + d.end.m) - (d.start.h * 60 + d.start.m)) * 60)

\* line i of the text has one of the two date layouts but names a day that
\* does not exist, and is not a comment
NamesInvalidDate(i) ==
    LET line == Strip(text[i])
    IN  /\ line # <<>> /\ Head(line) # "#"
        /\ ~ExtractDate(line).ok /\ ExtractDate(line).why = "invalid"

(***************************************************************************)
(* C15.  Parsing a document with a non-comment line that has one of the    *)
(* two date layouts but names an invalid calendar date fails with a        *)
(* ParseError, whatever follows on the line and whether or not a date      *)
(* section is open: the line is accepted neither as a DateMarker nor as an *)
(* EntryRecord.                                                            *)
(***************************************************************************)
C15_InvalidDateIsParseError ==
    (pc = "finally" /\ \E i \in DOMAIN text : NamesInvalidDate(i))
        => error = "ParseError"

\* what line i of the text is, told from the line alone
KindOf(i) ==
    LET line == Strip(text[i])
    IN  IF line = <<>> \/ Head(line) = "#" THEN "Text"
        ELSE IF ExtractDate(line).ok THEN "Date"
        ELSE "Entry"

\* the DateMarker lines of the text before line i
MarkersBefore(i) == {j \in 1..(i - 1) : KindOf(j) = "Date"}

\* the date of the most recent DateMarker line before line i
DateBefore(i) == ExtractDate(Strip(text[Max(MarkersBefore(i))])).date

\* line i is an entry line outside any date section, or of fewer than 3 parts
Misplaced(i) ==
    KindOf(i) = "Entry" /\ (MarkersBefore(i) = {} \/ Len(Split2(Strip(text[i]))) < 3)

\* line i is an entry line of 3 parts whose second part is no duration
BadDuration(i) ==
    /\ KindOf(i) = "Entry" /\ Len(Split2(Strip(text[i]))) = 3
    /\ ~ParseTime(Split2(Strip(text[i]))[2]).ok

\* the load ended as a single scan ends when the lines of failing make it
\* fail: no Document then, and else one Line per line of the text, in
\* order, each entry line bound to an entry of the most recent date
ScannedWith(failing) ==
    IF failing # {}
    THEN error = "ParseError" /\ lines = <<>> /\ coll = EmptyColl
    ELSE /\ error = "none"
         /\ Len(lines) = Len(text)
         /\ \A i \in DOMAIN text :
               /\ lines[i].kind = KindOf(i)
               /\ KindOf(i) = "Text" => lines[i].text = Strip(text[i])
               /\ KindOf(i) = "Date" =>
                      lines[i].date = ExtractDate(Strip(text[i])).date
               /\ KindOf(i) = "Entry" =>
                      /\ lines[i].rawAlias = Split2(Strip(text[i]))[1]
                      /\ lines[i].description = Split2(Strip(text[i]))[3]
                      /\ \E k \in DOMAIN coll[DateBefore(i)] :
                            Owners(coll, lines[i].id) = {<<DateBefore(i), k>>}

(***************************************************************************)
(* C16, as stated.  The parse of a document either returns one Line per    *)
(* input line, in input order, or fails with a ParseError and produces no  *)
(* Document; a non-blank, non-"#" line that is not a date fails when no    *)
(* DateMarker line precedes it or when it has fewer than 3 parts, and      *)
(* otherwise becomes an EntryRecord of the most recent DateMarker.         *)
(***************************************************************************)
C16_SingleScan_AnyDuration ==
    pc = "finally" => ScannedWith({i \in DOMAIN text : Misplaced(i)})

(***************************************************************************)
(* C16, amended.  As above, and a line of 3 parts under a DateMarker also  *)
(* fails with a ParseError when its second part is not a duration; it      *)
(* becomes an EntryRecord of the most recent DateMarker otherwise.         *)
(***************************************************************************)
C16_SingleScan ==
    pc = "finally" =>
        ScannedWith({i \in DOMAIN text : Misplaced(i) \/ BadDuration(i)})

\* a document whose only failing line is one of 3 parts with a bad duration
C16_Witness ==
    /\ pc = "finally" /\ error = "ParseError"
    /\ \E i \in DOMAIN text : BadDuration(i) /\ MarkersBefore(i) # {}
    /\ \A i \in DOMAIN text : ~Misplaced(i)

\* the data model of a Duration: a non-negative number of hours, or a pair
\* of which at most one endpoint is unset and every set endpoint is a time
\* of day
IsDuration(d) ==
    IF IsTuple(d)
    THEN /\ ~(d.start = NoTime /\ d.end = NoTime)
         /\ d.start # NoTime => ValidTime(d.start.h, d.start.m)
         /\ d.end # NoTime => ValidTime(d.end.h, d.end.m)
    ELSE ~d.neg \/ (d.int = 0 /\ d.frac = <<>>)

(***************************************************************************)
(* C17.  Every Duration the duration grammar returns for a token satisfies *)
(* the data model: a non-negative number of hours, or a (start, end) pair  *)
(* with at most one endpoint unset and every set endpoint within 23:59;    *)
(* the other tokens fail with a ParseError.                                *)
(***************************************************************************)
C17_ParsedDurationIsInDataModel ==
    /\ pc = "parsed" => IsDuration(coll[D1][1].duration)
    /\ pc = "rejected" => error = "ParseError"

\* a blank line or a comment-only line
IsBlankOrComment(l) ==
    l.kind = "Text" /\ (Strip(l.text) = <<>> \/ Head(Strip(l.text)) = "#")

\* the places of the lines of L that are neither blank nor comments
Content(L) == {i \in DOMAIN L : ~IsBlankOrComment(L[i])}

\* L without the maximal runs of blank/comment-only lines at its two ends
WithoutTextEnds(L) ==
    IF Content(L) = {} THEN <<>>
    ELSE SubSeq(L, Min(Content(L)), Max(Content(L)))

(***************************************************************************)
(* C18.  The trim operation removes exactly the maximal run of             *)
(* blank/comment-only lines at the very start of the Document and the      *)
(* maximal run at the very end: the lines in between stay, unchanged and   *)
(* in order, and a Document of such lines only becomes empty.              *)
(***************************************************************************)
C18_TrimRemovesTextRunsAtEnds ==
    [][last'.op = "trim" => (error' = "none" /\ lines' = WithoutTextEnds(lines))]_vars

AttrNames == {a[1] : a \in Assignments}

\* the step assigns an attribute of the entry k of date d
AssignsTo(d, k) == last'.op \in AttrNames /\ last'.date = d /\ last'.case = k

\* the line l is what parsing its cached text gives
AsParsed(l) ==
    /\ ParseEntryLine(l.text, l.id).ok
    /\ l = ParseEntryLine(l.text, l.id).line

(***************************************************************************)
(* C19.  An EntryRecord line holds cached text only while unmodified: an   *)
(* assignment of alias, duration, description, commented or ignored        *)
(* through the bound entry leaves the line with no cached text, and in     *)
(* every reachable state a line that has cached text has the fields its    *)
(* text was parsed to.                                                     *)
(***************************************************************************)
C19_CachedTextOnlyWhileUnmodified ==
    /\ [][\A d \in OpDates : \A k \in 1..(MaxSessionLines + MaxNewEntries) :
            AssignsTo(d, k) =>
                \A i \in DOMAIN lines' :
                    (IsEntryLine(lines'[i]) /\ lines'[i].id = coll[d][k].line)
                        => lines'[i].text = NoText]_vars
    /\ [](\A i \in DOMAIN lines :
            (IsEntryLine(lines[i]) /\ lines[i].text # NoText) => AsParsed(lines[i]))

\* an attribute was assigned on an entry whose line was parsed from the text
C19_Witness ==
    /\ last.op \in AttrNames
    /\ last.date \in DOMAIN coll /\ last.case \in DOMAIN coll[last.date]
    /\ \E i \in DOMAIN lines :
          /\ IsEntryLine(lines[i])
          /\ lines[i].id = coll[last.date][last.case].line
          /\ lines[i].id <= Len(text)
          /\ lines[i].text = NoText

\* the fields the line l shares with the entry e are equal
Mirrors(l, e) ==
    /\ LineAlias(l) = e.alias
    /\ l.duration = e.duration
    /\ l.description = e.description
    /\ l.ignored = e.ignored
    /\ l.commented = e.commented

(***************************************************************************)
(* C20.  For every entry bound to a Document line, after a bulk load,      *)
(* synchronized appends of entries whose fields were set beforehand, and   *)
(* attribute assignments on the entries, the line's alias, duration,       *)
(* description, ignored and commented fields equal the entry's.            *)
(***************************************************************************)
C20_LineMirrorsEntry ==
    InSession =>
        \A d \in DOMAIN coll : \A k \in DOMAIN coll[d] :
            \A i \in DOMAIN lines :
                (IsEntryLine(lines[i]) /\ lines[i].id = coll[d][k].line)
                    => Mirrors(lines[i], coll[d][k])

\* the DateMarker lines of date d in the text the collection was made of
TextMarkers(d) ==
    {i \in DOMAIN text :
        KindOf(i) = "Date" /\ ExtractDate(Strip(text[i])).date = d}

\* the session started from an empty Document or from a text in which every
\* date has at most one DateMarker line
StartedWithSingleMarkers == \A d \in OpDates : Cardinality(TextMarkers(d)) <= 1

(***************************************************************************)
(* C21.  Starting from an empty Document or from a bulk-loaded Document in *)
(* which every date has at most one DateMarker line, with or without       *)
(* entries under it, after any sequence of synchronized get, append and    *)
(* delete operations the Document still has at most one DateMarker line    *)
(* per date.                                                               *)
(***************************************************************************)
C21_OneDateMarkerPerDate ==
    (InSession /\ error = "none" /\ StartedWithSingleMarkers) =>
        \A d \in DatesOf(lines) : Cardinality(MarkerIndexes(lines, d)) <= 1

====
